---- MODULE Spec2Model ----
(***************************************************************************)
(* Model of voice_service/main.py: the two FastAPI handlers                *)
(* synthesize_speech (POST /synthesize) and clone_voice (POST /clone-voice)*)
(* that forward to the ElevenLabs SDK functions generate and clone.        *)
(*                                                                         *)
(* Each inbound request occupies one slot r \in Reqs.  A handler is split  *)
(* at its only external call: the handler invokes the remote operation,    *)
(* the remote operation returns a value or raises, and the handler then    *)
(* builds the HTTP response.                                               *)
(*                                                                         *)
(* Strings the handlers only pass through (text, voice ids, error          *)
(* messages) are TLA+ strings.  Strings the handlers build or encode       *)
(* (the clone name, the base64 text) are sequences of one-character        *)
(* strings.  Byte buffers are sequences of integers in 0..255.             *)
(***************************************************************************)
EXTENDS Integers, Sequences, FiniteSets, TLC

VARIABLES pc, request, args, calls, outcome, response, responses

vars == <<pc, request, args, calls, outcome, response, responses>>

\* ---------------------------------------------------------------- bounds

\* Number of requests handled concurrently.
NumReqs == 2

\* Longest byte buffer the remote generate operation returns (SpecB64).
MaxBufLen == 3

\* Longest voice name of a clone request (SpecName).
MaxNameLen == 2

Reqs == 1..NumReqs

\* ------------------------------------------------------------- data types

\* The absent value of a slot that has not been filled yet.
Nil == [kind |-> "nil"]

\* Optional[str]: Python's None, or a string.
None == [isNone |-> TRUE, str |-> ""]

Some(s) == [isNone |-> FALSE, str |-> s]

\* class SynthesisRequest(BaseModel): text: str, user_id: int,
\* voice_id: str = None
SynthesisRequest(text, user_id, voice_id) ==
    [kind |-> "synthesize", text |-> text, user_id |-> user_id,
     voice_id |-> voice_id]

\* The parameters of clone_voice(user_id: int, name: str,
\* audio_files: list[bytes]).
CloneVoiceRequest(user_id, name, audio_files) ==
    [kind |-> "clone", user_id |-> user_id, name |-> name,
     audio_files |-> audio_files]

\* ------------------------------------------------------ decimal formatting

DigitChars == <<"0", "1", "2", "3", "4", "5", "6", "7", "8", "9">>

RECURSIVE NatDigits(_)
\* The decimal digits of a natural number, most significant first.
NatDigits(n) ==
    IF n < 10 THEN <<DigitChars[n + 1]>>
    ELSE NatDigits(n \div 10) \o <<DigitChars[(n % 10) + 1]>>

\* f"{user_id}" for an int: a minus sign for a negative number, then the
\* digits, no leading zeros.
FormatInt(n) == IF n < 0 THEN <<"-">> \o NatDigits(0 - n) ELSE NatDigits(n)

\* Mutant: the user id and the name change places.
Mut_CloneName_Swapped(user_id, name) ==
    <<"u", "s", "e", "r", "_">> \o name \o <<"_">> \o FormatInt(user_id)

\* Mutant: no separator between the user id and the name.
Mut_CloneName_NoSeparator(user_id, name) ==
    <<"u", "s", "e", "r", "_">> \o FormatInt(user_id) \o name

\* name=f"user_{user_id}_{name}"
CloneName(user_id, name) ==
    <<"u", "s", "e", "r", "_">> \o FormatInt(user_id) \o <<"_">> \o name

\* ------------------------------------------------------------------ base64

B64Alphabet ==
    << "A", "B", "C", "D", "E", "F", "G", "H", "I", "J", "K", "L", "M",
       "N", "O", "P", "Q", "R", "S", "T", "U", "V", "W", "X", "Y", "Z",
       "a", "b", "c", "d", "e", "f", "g", "h", "i", "j", "k", "l", "m",
       "n", "o", "p", "q", "r", "s", "t", "u", "v", "w", "x", "y", "z",
       "0", "1", "2", "3", "4", "5", "6", "7", "8", "9", "+", "/" >>

\* The character of a 6-bit value.
B64Char(v) == B64Alphabet[v + 1]

RECURSIVE Mut_B64Encode_NoPadding(_)
\* Mutant: the final group is not padded with "=".
Mut_B64Encode_NoPadding(b) ==
    IF Len(b) = 0 THEN <<>>
    ELSE IF Len(b) = 1 THEN
        << B64Char(b[1] \div 4), B64Char((b[1] % 4) * 16) >>
    ELSE IF Len(b) = 2 THEN
        << B64Char(b[1] \div 4),
           B64Char((b[1] % 4) * 16 + (b[2] \div 16)),
           B64Char((b[2] % 16) * 4) >>
    ELSE
        << B64Char(b[1] \div 4),
           B64Char((b[1] % 4) * 16 + (b[2] \div 16)),
           B64Char((b[2] % 16) * 4 + (b[3] \div 64)),
           B64Char(b[3] % 64) >>
        \o Mut_B64Encode_NoPadding(SubSeq(b, 4, Len(b)))

RECURSIVE B64Encode(_)
\* base64.b64encode(audio).decode('utf-8'): every 3 bytes become 4
\* characters; a final group of 1 or 2 bytes is zero-filled and padded
\* with "=".
B64Encode(b) ==
    IF Len(b) = 0 THEN <<>>
    ELSE IF Len(b) = 1 THEN
        << B64Char(b[1] \div 4), B64Char((b[1] % 4) * 16), "=", "=" >>
    ELSE IF Len(b) = 2 THEN
        << B64Char(b[1] \div 4),
           B64Char((b[1] % 4) * 16 + (b[2] \div 16)),
           B64Char((b[2] % 16) * 4), "=" >>
    ELSE
        << B64Char(b[1] \div 4),
           B64Char((b[1] % 4) * 16 + (b[2] \div 16)),
           B64Char((b[2] % 16) * 4 + (b[3] \div 64)),
           B64Char(b[3] % 64) >>
        \o B64Encode(SubSeq(b, 4, Len(b)))

\* ------------------------------------------------------------ the handlers

\* Mutant: no default voice, the absent voice_id is forwarded as it is.
Mut_VoiceSelector_NoDefault(voice_id) == voice_id.str

\* voice=request.voice_id if request.voice_id else "Josh"
\* (None and the empty string are both falsy).
VoiceSelector(voice_id) ==
    IF ~voice_id.isNone /\ voice_id.str # "" THEN voice_id.str ELSE "Josh"

\* The keyword arguments of generate(text=..., voice=..., model=...).
GenerateArgs(req) ==
    [kind |-> "generate", text |-> req.text,
     voice |-> VoiceSelector(req.voice_id),
     model |-> "eleven_monolingual_v1"]

\* The keyword arguments of clone(name=..., files=...).
CloneArgs(req) ==
    [kind |-> "clone", name |-> CloneName(req.user_id, req.name),
     files |-> req.audio_files]

\* str(e) of the exception the remote operation raised.
ExcStr(e) == e.msg

\* Mutant: the failure's message is replaced by a fixed text.
Mut_ErrorResponse_Redacted(e) ==
    [status |-> 500, body |-> [detail |-> "Internal Server Error"]]

\* raise HTTPException(status_code=500, detail=str(e))
ErrorResponse(e) == [status |-> 500, body |-> [detail |-> ExcStr(e)]]

\* return JSONResponse({"success": True, "audio_data": audio_base64})
SynthesisSuccess(audio) ==
    [status |-> 200,
     body |-> [success |-> TRUE, audio_data |-> B64Encode(audio)]]

\* return JSONResponse({"success": True, "voice_id": voice.voice_id})
CloneSuccess(voice) ==
    [status |-> 200, body |-> [success |-> TRUE, voice_id |-> voice.voice_id]]

Init ==
    /\ pc = [r \in Reqs |-> "idle"]
    /\ request = [r \in Reqs |-> Nil]
    /\ args = [r \in Reqs |-> Nil]
    /\ calls = [r \in Reqs |-> 0]
    /\ outcome = [r \in Reqs |-> Nil]
    /\ response = [r \in Reqs |-> Nil]
    /\ responses = [r \in Reqs |-> 0]

\* Mutant: an empty text is rejected locally, generate is not called.
Mut_SynthesizeCall_Validate(r, req) ==
    /\ pc[r] = "idle"
    /\ request' = [request EXCEPT ![r] = req]
    /\ IF req.text = ""
       THEN /\ response' = [response EXCEPT ![r] =
                   [status |-> 422, body |-> [detail |-> "text is empty"]]]
            /\ responses' = [responses EXCEPT ![r] = @ + 1]
            /\ pc' = [pc EXCEPT ![r] = "done"]
            /\ UNCHANGED <<args, calls, outcome>>
       ELSE /\ args' = [args EXCEPT ![r] = GenerateArgs(req)]
            /\ calls' = [calls EXCEPT ![r] = @ + 1]
            /\ pc' = [pc EXCEPT ![r] = "in_generate"]
            /\ UNCHANGED <<outcome, response, responses>>

\* synthesize_speech up to its call of generate.
SynthesizeCall(r, req) ==
    /\ pc[r] = "idle"
    /\ request' = [request EXCEPT ![r] = req]
    /\ args' = [args EXCEPT ![r] = GenerateArgs(req)]
    /\ calls' = [calls EXCEPT ![r] = @ + 1]
    /\ pc' = [pc EXCEPT ![r] = "in_generate"]
    /\ UNCHANGED <<outcome, response, responses>>

\* generate returns the audio bytes.
GenerateReturns(r, audio) ==
    /\ pc[r] = "in_generate"
    /\ outcome' = [outcome EXCEPT ![r] = [kind |-> "bytes", audio |-> audio]]
    /\ pc' = [pc EXCEPT ![r] = "generate_done"]
    /\ UNCHANGED <<request, args, calls, response, responses>>

\* generate raises an exception with message msg.
GenerateRaises(r, msg) ==
    /\ pc[r] = "in_generate"
    /\ outcome' = [outcome EXCEPT ![r] = [kind |-> "error", msg |-> msg]]
    /\ pc' = [pc EXCEPT ![r] = "generate_done"]
    /\ UNCHANGED <<request, args, calls, response, responses>>

\* Mutant: a failed generate is called again instead of being surfaced.
Mut_SynthesizeRespond_Retry(r) ==
    /\ pc[r] = "generate_done"
    /\ IF outcome[r].kind = "error"
       THEN /\ calls' = [calls EXCEPT ![r] = @ + 1]
            /\ pc' = [pc EXCEPT ![r] = "in_generate"]
            /\ UNCHANGED <<request, args, outcome, response, responses>>
       ELSE /\ response' = [response EXCEPT ![r] =
                   SynthesisSuccess(outcome[r].audio)]
            /\ responses' = [responses EXCEPT ![r] = @ + 1]
            /\ pc' = [pc EXCEPT ![r] = "done"]
            /\ UNCHANGED <<request, args, calls, outcome>>

\* synthesize_speech after generate: the success envelope, or the except
\* clause.
SynthesizeRespond(r) ==
    /\ pc[r] = "generate_done"
    /\ response' = [response EXCEPT ![r] =
           IF outcome[r].kind = "error" THEN ErrorResponse(outcome[r])
           ELSE SynthesisSuccess(outcome[r].audio)]
    /\ responses' = [responses EXCEPT ![r] = @ + 1]
    /\ pc' = [pc EXCEPT ![r] = "done"]
    /\ UNCHANGED <<request, args, calls, outcome>>

\* clone_voice up to its call of clone.
CloneCall(r, req) ==
    /\ pc[r] = "idle"
    /\ request' = [request EXCEPT ![r] = req]
    /\ args' = [args EXCEPT ![r] = CloneArgs(req)]
    /\ calls' = [calls EXCEPT ![r] = @ + 1]
    /\ pc' = [pc EXCEPT ![r] = "in_clone"]
    /\ UNCHANGED <<outcome, response, responses>>

\* clone returns a voice handle.
CloneReturns(r, voice_id) ==
    /\ pc[r] = "in_clone"
    /\ outcome' = [outcome EXCEPT ![r] =
           [kind |-> "voice", voice_id |-> voice_id]]
    /\ pc' = [pc EXCEPT ![r] = "clone_done"]
    /\ UNCHANGED <<request, args, calls, response, responses>>

\* clone raises an exception with message msg.
CloneRaises(r, msg) ==
    /\ pc[r] = "in_clone"
    /\ outcome' = [outcome EXCEPT ![r] = [kind |-> "error", msg |-> msg]]
    /\ pc' = [pc EXCEPT ![r] = "clone_done"]
    /\ UNCHANGED <<request, args, calls, response, responses>>

\* Mutant: the result is kept in a variable shared by all requests, so a
\* handler may answer with the result of another request's clone call.
Mut_CloneRespond_Shared(r) ==
    /\ pc[r] = "clone_done"
    /\ \E q \in Reqs :
        /\ pc[q] = "clone_done"
        /\ response' = [response EXCEPT ![r] =
               IF outcome[q].kind = "error" THEN ErrorResponse(outcome[q])
               ELSE CloneSuccess(outcome[q])]
    /\ responses' = [responses EXCEPT ![r] = @ + 1]
    /\ pc' = [pc EXCEPT ![r] = "done"]
    /\ UNCHANGED <<request, args, calls, outcome>>

\* clone_voice after clone: the success envelope, or the except clause.
CloneRespond(r) ==
    /\ pc[r] = "clone_done"
    /\ response' = [response EXCEPT ![r] =
           IF outcome[r].kind = "error" THEN ErrorResponse(outcome[r])
           ELSE CloneSuccess(outcome[r])]
    /\ responses' = [responses EXCEPT ![r] = @ + 1]
    /\ pc' = [pc EXCEPT ![r] = "done"]
    /\ UNCHANGED <<request, args, calls, outcome>>

\* ------------------------------------------------- inputs of the main model

Texts == {"", "hello"}

VoiceIds == {None, Some(""), Some("v1")}

SynthesisRequests ==
    {SynthesisRequest(t, 1, v) : t \in Texts, v \in VoiceIds}

Audios == {<<>>, <<1, 2>>}

Messages == {"quota exceeded"}

CloneRequests ==
    {CloneVoiceRequest(u, n, f) :
        u \in {0 - 3, 42},
        n \in {<<>>, <<"a", "l", "e", "x">>},
        f \in {<<>>, << <<1>>, <<2, 3>> >>}}

ClonedVoiceIds == {"voice9"}

Next ==
    \E r \in Reqs :
        \/ \E req \in SynthesisRequests : SynthesizeCall(r, req)
        \/ \E audio \in Audios : GenerateReturns(r, audio)
        \/ \E msg \in Messages : GenerateRaises(r, msg)
        \/ SynthesizeRespond(r)
        \/ \E req \in CloneRequests : CloneCall(r, req)
        \/ \E v \in ClonedVoiceIds : CloneReturns(r, v)
        \/ \E msg \in Messages : CloneRaises(r, msg)
        \/ CloneRespond(r)

Spec == Init /\ [][Next]_vars

\* --------------------------------------------- the base64 model (SpecB64)

\* Byte values covering every 2-bit and 4-bit carry between sextets.
ByteVals == {0, 1, 2, 63, 77, 128, 251, 255}

\* The sequences over S of length at most n.
SeqsUpTo(S, n) == UNION {[1..k -> S] : k \in 0..n}

Buffers == SeqsUpTo(ByteVals, MaxBufLen)

\* One synthesize request whose remote call returns any buffer of Buffers.
NextB64 ==
    \/ SynthesizeCall(1, SynthesisRequest("hello", 1, None))
    \/ \E audio \in Buffers : GenerateReturns(1, audio)
    \/ SynthesizeRespond(1)

SpecB64 == Init /\ [][NextB64]_vars

\* ------------------------------------------- the clone-name model (SpecName)

NameChars == {"_", "1", "a"}

Names == SeqsUpTo(NameChars, MaxNameLen)

UserIds == {0 - 11, 0 - 1, 0, 1, 10, 11, 42, 111}

NameRequests == {CloneVoiceRequest(u, n, <<>>) : u \in UserIds, n \in Names}

\* Two clone-voice requests with any user ids and names of the sets above.
NextName ==
    \E r \in {1, 2} : \E req \in NameRequests : CloneCall(r, req)

SpecName == Init /\ [][NextName]_vars

\* ------------------------------------------------ helpers of the properties

\* The 6-bit value of a base64 character.
B64Value(c) == CHOOSE v \in 0..63 : B64Alphabet[v + 1] = c

B64Chars == {B64Alphabet[i] : i \in 1..64}

\* A well-formed standard base64 text: groups of 4 characters of the
\* alphabet, "=" only as the last one or two characters of the last group.
B64WellFormed(s) ==
    /\ Len(s) % 4 = 0
    /\ \A i \in 1..Len(s) :
        \/ s[i] \in B64Chars
        \/ s[i] = "=" /\ i = Len(s)
        \/ s[i] = "=" /\ i = Len(s) - 1 /\ s[Len(s)] = "="

RECURSIVE B64Decode(_)
\* The standard base64 decoding of a well-formed text.
B64Decode(s) ==
    IF Len(s) = 0 THEN <<>>
    ELSE IF s[3] = "=" THEN
        << B64Value(s[1]) * 4 + (B64Value(s[2]) \div 16) >>
    ELSE IF s[4] = "=" THEN
        << B64Value(s[1]) * 4 + (B64Value(s[2]) \div 16),
           (B64Value(s[2]) % 16) * 16 + (B64Value(s[3]) \div 4) >>
    ELSE
        << B64Value(s[1]) * 4 + (B64Value(s[2]) \div 16),
           (B64Value(s[2]) % 16) * 16 + (B64Value(s[3]) \div 4),
           (B64Value(s[3]) % 4) * 64 + B64Value(s[4]) >>
        \o B64Decode(SubSeq(s, 5, Len(s)))

Digits == {DigitChars[i] : i \in 1..10}

DigitValue(c) == CHOOSE v \in 0..9 : DigitChars[v + 1] = c

\* A canonical decimal numeral: digits without a leading zero, after an
\* optional minus sign.
IsNatNumeral(d) ==
    /\ Len(d) >= 1
    /\ \A i \in 1..Len(d) : d[i] \in Digits
    /\ (Len(d) > 1 => d[1] # "0")

IsNumeral(d) ==
    \/ IsNatNumeral(d)
    \/ Len(d) >= 2 /\ d[1] = "-" /\ IsNatNumeral(Tail(d)) /\ d # <<"-", "0">>

RECURSIVE NatValue(_)
NatValue(d) ==
    IF Len(d) = 0 THEN 0
    ELSE NatValue(SubSeq(d, 1, Len(d) - 1)) * 10 + DigitValue(d[Len(d)])

NumeralValue(d) == IF d[1] = "-" THEN 0 - NatValue(Tail(d)) ELSE NatValue(d)

IsSynth(r) == request[r].kind = "synthesize"

IsClone(r) == request[r].kind = "clone"

Failed(r) == outcome[r].kind = "error"

\* ------------------------------------------------------------------ claims

\* C1: every synthesize request that carries a voice_id (any string, the
\* empty string included) has generate invoked with exactly that voice_id
\* as the voice, never with the default voice.
C1_VoiceIdForwarded ==
    \A r \in Reqs :
        (IsSynth(r) /\ ~request[r].voice_id.isNone) =>
            /\ args[r].kind = "generate"
            /\ args[r].voice = request[r].voice_id.str

\* C2: a synthesize request without voice_id has generate invoked with the
\* voice "Josh"; every synthesize request has generate invoked with the
\* model "eleven_monolingual_v1" and the request's text unchanged.
C2_DefaultVoiceAndModel ==
    \A r \in Reqs :
        IsSynth(r) =>
            /\ args[r].kind = "generate"
            /\ args[r].model = "eleven_monolingual_v1"
            /\ args[r].text = request[r].text
            /\ (request[r].voice_id.isNone => args[r].voice = "Josh")

C2_Witness ==
    \E r, q \in Reqs :
        /\ IsSynth(r) /\ request[r].voice_id.isNone /\ pc[r] = "done"
        /\ args[r].voice = "Josh"
        /\ IsSynth(q) /\ ~request[q].voice_id.isNone
        /\ request[q].text = "hello" /\ args[q].text = "hello"

\* C3: on both endpoints, when the remote call fails with message m the
\* response is HTTP 500 with body {detail: m} and nothing else in the body;
\* a request whose remote call failed never gets a 200 envelope.
C3_FailureIs500 ==
    \A r \in Reqs :
        (pc[r] = "done" /\ Failed(r)) =>
            /\ response[r].status = 500
            /\ DOMAIN response[r].body = {"detail"}
            /\ response[r].body.detail = outcome[r].msg

C3_Witness ==
    \E r, q \in Reqs :
        /\ IsSynth(r) /\ pc[r] = "done" /\ Failed(r)
        /\ outcome[r].msg = "quota exceeded"
        /\ response[r] = [status |-> 500,
                          body |-> [detail |-> "quota exceeded"]]
        /\ IsClone(q) /\ pc[q] = "done" /\ Failed(q)

\* C4: when generate returns the buffer b, the response is HTTP 200 with
\* body {success: true, audio_data: s}, s a well-formed standard base64
\* text whose decoding is exactly b; the bytes 1, 2 give "AQI=" and the
\* empty buffer gives the empty text.
C4_Base64RoundTrip ==
    \A r \in Reqs :
        (IsSynth(r) /\ pc[r] = "done" /\ outcome[r].kind = "bytes") =>
            /\ response[r].status = 200
            /\ DOMAIN response[r].body = {"success", "audio_data"}
            /\ response[r].body.success = TRUE
            /\ B64WellFormed(response[r].body.audio_data)
            /\ Len(response[r].body.audio_data)
                   = 4 * ((Len(outcome[r].audio) + 2) \div 3)
            /\ B64Decode(response[r].body.audio_data) = outcome[r].audio
            /\ (outcome[r].audio = <<1, 2>> =>
                   response[r].body.audio_data = <<"A", "Q", "I", "=">>)

C4_Witness ==
    \E r \in Reqs :
        /\ pc[r] = "done"
        /\ outcome[r].kind = "bytes"
        /\ outcome[r].audio = <<1, 2>>
        /\ response[r].body.audio_data = <<"A", "Q", "I", "=">>

\* C5: a clone-voice request (user_id, name, audio_files) has clone invoked
\* with the name "user_" + decimal(user_id) + "_" + name (42 and "alex" give
\* "user_42_alex") and with the sample buffers in the same order, unchanged;
\* when clone returns a handle with voice_id v the response is HTTP 200 with
\* body {success: true, voice_id: v}.
C5_CloneNameAndEnvelope ==
    \A r \in Reqs :
        IsClone(r) =>
            LET n == args[r].name
                k == Len(request[r].name)
                d == SubSeq(n, 6, Len(n) - k - 1)
            IN  /\ args[r].kind = "clone"
                /\ Len(n) >= 7 + k
                /\ SubSeq(n, 1, 5) = <<"u", "s", "e", "r", "_">>
                /\ IsNumeral(d)
                /\ NumeralValue(d) = request[r].user_id
                /\ n[Len(n) - k] = "_"
                /\ SubSeq(n, Len(n) - k + 1, Len(n)) = request[r].name
                /\ ((request[r].user_id = 42
                        /\ request[r].name = <<"a", "l", "e", "x">>) =>
                       n = <<"u", "s", "e", "r", "_", "4", "2", "_",
                             "a", "l", "e", "x">>)
                /\ args[r].files = request[r].audio_files
                /\ ((pc[r] = "done" /\ outcome[r].kind = "voice") =>
                       response[r] =
                           [status |-> 200,
                            body |-> [success |-> TRUE,
                                      voice_id |-> outcome[r].voice_id]])

C5_Witness ==
    \E r \in Reqs :
        /\ IsClone(r) /\ pc[r] = "done" /\ outcome[r].kind = "voice"
        /\ request[r].user_id = 42
        /\ request[r].name = <<"a", "l", "e", "x">>
        /\ request[r].audio_files = << <<1>>, <<2, 3>> >>
        /\ args[r].files = << <<1>>, <<2, 3>> >>
        /\ response[r].body.voice_id = "voice9"

\* C6: every request that reaches a handler causes exactly one invocation
\* of the remote operation and exactly one response; a failed call is not
\* retried, and the response exists only once the call has completed.
C6_OneCallOneResponse ==
    \A r \in Reqs :
        /\ calls[r] = (IF pc[r] = "idle" THEN 0 ELSE 1)
        /\ responses[r] = (IF pc[r] = "done" THEN 1 ELSE 0)
        /\ ((response[r] = Nil) <=> pc[r] # "done")
        /\ (pc[r] = "done" => outcome[r].kind # "nil")
        /\ (outcome[r].kind # "nil" => calls[r] = 1)

C6_Witness ==
    \E r, q \in Reqs :
        /\ IsSynth(r) /\ pc[r] = "done" /\ Failed(r)
        /\ calls[r] = 1 /\ responses[r] = 1
        /\ IsClone(q) /\ pc[q] = "done" /\ ~Failed(q)
        /\ calls[q] = 1 /\ responses[q] = 1

\* Everything the model keeps about request r.
SlotState(r) ==
    <<pc[r], request[r], args[r], calls[r], outcome[r], response[r],
      responses[r]>>

\* C7: under any interleaving of synthesize and clone-voice requests, a
\* step of one request changes nothing of any other request, the remote
\* arguments of a request are those of its own inputs, and its response is
\* that of its own remote call's outcome.
C7_Independent ==
    [][\A r \in Reqs :
          (SlotState(r)' # SlotState(r)) =>
              /\ \A q \in Reqs \ {r} : SlotState(q)' = SlotState(q)
              /\ (args[r]' # args[r] =>
                     args[r]' = (IF request[r]'.kind = "synthesize"
                                 THEN GenerateArgs(request[r]')
                                 ELSE CloneArgs(request[r]')))
              /\ (response[r]' # response[r] =>
                     response[r]' =
                         (IF outcome[r].kind = "error"
                          THEN ErrorResponse(outcome[r])
                          ELSE IF outcome[r].kind = "bytes"
                          THEN SynthesisSuccess(outcome[r].audio)
                          ELSE CloneSuccess(outcome[r])))]_vars

C7_Witness ==
    \E r, q \in Reqs :
        /\ r # q
        /\ IsSynth(r) /\ pc[r] = "done" /\ ~Failed(r)
        /\ response[r].status = 200
        /\ IsClone(q) /\ pc[q] = "done" /\ Failed(q)
        /\ response[q].status = 500

\* C8: a synthesize request with empty text is forwarded to generate with
\* the empty text, and a clone-voice request with an empty sample list is
\* forwarded to clone with the empty list; neither is rejected locally, and
\* the response is 200 or 500 by the remote call's outcome alone.
C8_NoContentValidation ==
    \A r \in Reqs :
        /\ (IsSynth(r) /\ request[r].text = "") =>
               /\ calls[r] = 1
               /\ args[r].kind = "generate" /\ args[r].text = ""
        /\ (IsClone(r) /\ request[r].audio_files = <<>>) =>
               /\ calls[r] = 1
               /\ args[r].kind = "clone" /\ args[r].files = <<>>
        /\ pc[r] = "done" =>
               /\ outcome[r].kind # "nil"
               /\ response[r].status = (IF Failed(r) THEN 500 ELSE 200)

C8_Witness ==
    \E r, q \in Reqs :
        /\ IsSynth(r) /\ request[r].text = "" /\ pc[r] = "done"
        /\ args[r].text = "" /\ response[r].status = 200
        /\ IsClone(q) /\ request[q].audio_files = <<>> /\ pc[q] = "done"
        /\ args[q].files = <<>> /\ response[q].status = 500

\* C10: the forwarded clone name is injective over (user_id, name): two
\* clone-voice requests are forwarded under the same name only if their
\* user ids are equal and their names are equal, also for names that
\* contain underscores or digits.
C10_CloneNameInjective ==
    \A r, q \in Reqs :
        (IsClone(r) /\ IsClone(q) /\ args[r].name = args[q].name) =>
            /\ request[r].user_id = request[q].user_id
            /\ request[r].name = request[q].name

C10_Witness ==
    \E r, q \in Reqs :
        /\ IsClone(r) /\ IsClone(q)
        /\ request[r].user_id = 1 /\ request[r].name = <<"1", "_">>
        /\ request[q].user_id = 11 /\ request[q].name = <<"_">>
        /\ args[r].name # args[q].name

====
